---- MODULE Spec2Model ----
(***************************************************************************)
(* Model of the ValorReal backend: the plate lookup handlers               *)
(* (controllers/consultaController.js), the plate lookup client            *)
(* (services/apiPlacasService.js), the Vehicle store (models/Vehicle.js),  *)
(* the error middleware (server.js) and the marketplace URL builder,       *)
(* scraper and price extractor (services/olxService.js).                   *)
(*                                                                         *)
(* Text is a sequence of one-character strings, so that normalisation,     *)
(* validation and parsing are computed character by character.  An absent  *)
(* (null / undefined) value is the empty sequence None, a present value v  *)
(* is the one-element sequence <<v>>.                                      *)
(***************************************************************************)
EXTENDS Integers, Sequences, FiniteSets, TLC

VARIABLES store, now, pedidos, req,
          placaIn, placaPc, placaFmt, placaHttp, placaErro,
          fipeIn, fipePc, fipeOut,
          texto, precoPc, preco,
          urlIn, urlPc, urlOut,
          olxIn, olxPc, olxUrl, olxHtml, precos, olxOrigem, olxCorreu, olxOut

mainVars == <<store, now, pedidos, req>>
placaVars == <<placaIn, placaPc, placaFmt, placaHttp, placaErro>>
fipeVars == <<fipeIn, fipePc, fipeOut>>
precoVars == <<texto, precoPc, preco>>
urlVars == <<urlIn, urlPc, urlOut>>
olxVars == <<olxIn, olxPc, olxUrl, olxHtml, precos, olxOrigem, olxCorreu, olxOut>>
vars == <<mainVars, placaVars, fipeVars, precoVars, urlVars, olxVars>>
\* What the server's steps leave alone: the variables of the components run alone
foraServidor == <<placaVars, fipeVars, precoVars, urlVars, olxVars>>

None == <<>>
Some(v) == <<v>>

----------------------------------------------------------------------------
(* Characters *)

LowerLetters == <<"a","b","c","d","e","f","g","h","i","j","k","l","m",
                  "n","o","p","q","r","s","t","u","v","w","x","y","z">>
UpperLetters == <<"A","B","C","D","E","F","G","H","I","J","K","L","M",
                  "N","O","P","Q","R","S","T","U","V","W","X","Y","Z">>
AZ == {UpperLetters[i] : i \in DOMAIN UpperLetters}
Digits == {"0","1","2","3","4","5","6","7","8","9"}
\* The characters the regular expression class \s matches, as far as the inputs use them.
Whitespace == {" ", "\t", "\n"}

\* String.prototype.toUpperCase, one character
UpperChar(c) ==
    IF \E i \in DOMAIN LowerLetters : LowerLetters[i] = c
    THEN UpperLetters[CHOOSE i \in DOMAIN LowerLetters : LowerLetters[i] = c]
    ELSE c

\* String.prototype.toUpperCase
toUpperCase(s) == [i \in DOMAIN s |-> UpperChar(s[i])]

\* String.prototype.trim: leading and trailing whitespace removed
RECURSIVE TrimLeft(_)
TrimLeft(s) ==
    IF s # <<>> /\ Head(s) \in Whitespace THEN TrimLeft(Tail(s)) ELSE s

RECURSIVE TrimRight(_)
TrimRight(s) ==
    IF s # <<>> /\ s[Len(s)] \in Whitespace
    THEN TrimRight(SubSeq(s, 1, Len(s) - 1)) ELSE s

trim(s) == TrimRight(TrimLeft(s))

----------------------------------------------------------------------------
(* services/apiPlacasService.js *)

\* placa.replace(/\s/g, '').toUpperCase()
IsNotWhitespace(c) == c \notin Whitespace
formatarPlaca(placa) == toUpperCase(SelectSeq(placa, IsNotWhitespace))

\* /^[A-Z]{3}[0-9]{4}$/
formatoAntigo(p) ==
    /\ Len(p) = 7
    /\ \A i \in 1..3 : p[i] \in AZ
    /\ \A i \in 4..7 : p[i] \in Digits

\* /^[A-Z]{3}[0-9][A-Z0-9][0-9]{2}$/
formatoNovo(p) ==
    /\ Len(p) = 7
    /\ \A i \in 1..3 : p[i] \in AZ
    /\ p[4] \in Digits
    /\ p[5] \in AZ \cup Digits
    /\ \A i \in 6..7 : p[i] \in Digits

\* validarPlaca with the new format forgotten
validarPlaca_soAntigo(p) == formatoAntigo(p)

validarPlaca(p) == formatoAntigo(p) \/ formatoNovo(p)

\* The messages of the errors the client throws (lines 25, 86, 89)
ErroFormato == "Formato de placa invalido. Use o formato AAA0X00 ou AAA9999"
ErroApi == "Erro na API Placas: 503 - Service Unavailable"
ErroConexao == "Erro ao conectar com a API Placas. Tente novamente."
SemErros == "Sem erros."

\* (x.score || 0)
ScoreOrZero(c) == IF c.score = None THEN 0 ELSE c.score[1]

\* (v || null) on a number: undefined, null and 0 give null
NumOrNull(v) == IF v = None \/ v = Some(0) THEN None ELSE v

\* (v || null) on a string: undefined, null and "" give null
StrOrNull(v) == IF v = None \/ v = Some("") THEN None ELSE v

\* Array.prototype.sort with the comparator (a, b) => (b.score || 0) - (a.score || 0):
\* descending by score, stable (ECMAScript 2019), so equal scores keep their order.
RECURSIVE InsertByScore(_, _)
InsertByScore(sorted, x) ==
    IF sorted = <<>> THEN <<x>>
    ELSE IF ScoreOrZero(Head(sorted)) >= ScoreOrZero(x)
         THEN <<Head(sorted)>> \o InsertByScore(Tail(sorted), x)
         ELSE <<x>> \o sorted

RECURSIVE fipeOrdenado(_)
fipeOrdenado(dados) ==
    IF dados = <<>> THEN <<>>
    ELSE InsertByScore(fipeOrdenado(SubSeq(dados, 1, Len(dados) - 1)), dados[Len(dados)])

\* Lines 45-60: the valuation fields, from the provider's list data.fipe.dados
\* (the empty sequence when the list is absent or empty).  The sort is in place, so
\* dadosFipe is the sorted list.
processarFipe(dados) ==
    IF Len(dados) > 0
    THEN LET ordenado == fipeOrdenado(dados)
             melhorFipe == ordenado[1]
         IN [valorFipe |-> StrOrNull(melhorFipe.texto_valor),
             valorFipeScore |-> NumOrNull(melhorFipe.score),
             dadosFipe |-> Some(ordenado)]
    ELSE [valorFipe |-> None, valorFipeScore |-> None, dadosFipe |-> None]

\* Lines 62-80: the standard object built from the provider's data (of the fields
\* copied one to one, marca stands for all; dadosCompletos, the provider's body
\* itself, is left out)
montarVeiculo(data, placaFormatada) ==
    LET f == processarFipe(data.fipeDados)
    IN [placa |-> IF data.placa # None THEN data.placa ELSE placaFormatada,
        marca |-> StrOrNull(data.marca),
        valorFipe |-> f.valorFipe,
        valorFipeScore |-> f.valorFipeScore,
        dadosFipe |-> f.dadosFipe,
        mensagemRetorno |-> StrOrNull(data.mensagemRetorno)]

\* Lines 19-26: the synchronous start of consultarPlaca
consultarPlacaInicio(placa) ==
    LET placaFormatada == formatarPlaca(placa)
    IN [valida |-> validarPlaca(placaFormatada), placaFormatada |-> placaFormatada]

NoVeiculo == None

\* Lines 38-43 and 83-94: what consultarPlaca makes of the outcome of axios.get.
\* outcome.tipo is "data" (a 2xx answer with a body), "response" (a non-2xx answer)
\* or "request" (no answer: timeout or connection error).
consultarPlacaFim(placaFormatada, outcome) ==
    IF outcome.tipo = "response" THEN [veiculo |-> NoVeiculo, erro |-> ErroApi]
    ELSE IF outcome.tipo = "request" THEN [veiculo |-> NoVeiculo, erro |-> ErroConexao]
    ELSE IF outcome.data.mensagemRetorno # None
            /\ outcome.data.mensagemRetorno # Some("")
            /\ outcome.data.mensagemRetorno # Some(SemErros)
         THEN [veiculo |-> NoVeiculo, erro |-> outcome.data.mensagemRetorno[1]]
         ELSE [veiculo |-> Some(montarVeiculo(outcome.data, placaFormatada)), erro |-> ""]

----------------------------------------------------------------------------
(* models/Vehicle.js *)

\* The setters of the schema's placa: uppercase and trim
schemaPlaca(p) == trim(toUpperCase(p))

\* new Vehicle(veiculoData): the schema's fields (fonte is not one of them), the
\* setters applied, dataConsulta defaulting to Date.now
novoVehicle(v, agora) ==
    [placa |-> schemaPlaca(v.placa),
     marca |-> v.marca,
     valorFipe |-> v.valorFipe,
     valorFipeScore |-> v.valorFipeScore,
     dadosFipe |-> v.dadosFipe,
     mensagemRetorno |-> v.mensagemRetorno,
     dataConsulta |-> agora]

\* findOne({placa: placa.toUpperCase()}).sort({dataConsulta: -1}): the documents it
\* may return (several when the newest timestamps are equal; none when no document matches)
chaveCache(placa) == toUpperCase(placa)

findLatestByPlaca(docs, placa) ==
    {i \in DOMAIN docs :
        /\ docs[i].placa = chaveCache(placa)
        /\ \A j \in DOMAIN docs :
              docs[j].placa = chaveCache(placa) => docs[j].dataConsulta <= docs[i].dataConsulta}

----------------------------------------------------------------------------
(* server.js (src/unnamed/part_000): the error middleware *)

StatusErroInterno == 500
StatusBadRequest == 400
StatusOk == 200

\* res.status(err.status || 500).json({error: err.message || 'Erro interno do servidor'});
\* the errors of this program are plain Error objects, which carry no status
errorMiddleware(message) ==
    [status |-> StatusErroInterno,
     data |-> None,
     error |-> IF message # "" THEN message ELSE "Erro interno do servidor"]

----------------------------------------------------------------------------
(* controllers/consultaController.js *)

\* How many requests the server receives
MaxPedidos == 2

\* 24 * 60 * 60 * 1000 ms, with the clock in hours
HorasCache == 24
\* 7 * 24 * 60 * 60 * 1000 ms, in hours
HorasSemana == 168
HorasDia == 24

\* Two requests may be in flight at once
Slots == {1, 2}
\* The instants, in hours, the clock passes through: a record of instant 0 is then
\* 23, 24 and 25 hours old
Instantes == {0, 23, 24, 25}

\* req.params.placa of the requests (None: no plate)
ABC1234 == <<"A","B","C","1","2","3","4">>
abc1d23 == <<"a","b","c","1","d","2","3">>
abc_1234 == <<"a","b","c"," ","1","2","3","4">>
AB1234 == <<"A","B","1","2","3","4">>
PlacasPedido == {None, ABC1234, abc1d23, abc_1234, AB1234}

FipeExemplo == <<[texto_valor |-> Some("R$ 30.000,00"), score |-> Some(80)],
                 [texto_valor |-> Some("R$ 32.000,00"), score |-> Some(95)]>>

\* The bodies the provider may answer with for a plate: it echoes the plate it was
\* asked for or leaves it out, and reports success or a rejection.
ProviderData(placaFormatada) ==
    [placa : {None, placaFormatada},
     marca : {Some("VW")},
     mensagemRetorno : {Some(SemErros), Some("Placa nao encontrada")},
     fipeDados : {FipeExemplo}]

NoData == [placa |-> None, marca |-> None, mensagemRetorno |-> None, fipeDados |-> <<>>]

AxiosOutcomes(placaFormatada) ==
    {[tipo |-> "data", data |-> d] : d \in ProviderData(placaFormatada)}
    \cup {[tipo |-> "response", data |-> NoData], [tipo |-> "request", data |-> NoData]}

\* A request slot before any request.  pc is the await the handler is suspended at.
\* vistos is a history variable: how many documents matched the filter of a list
\* request when its find was answered.
\* tinhaFresco is a history variable: whether, when the handler read the cache (or,
\* for a forced lookup, started), the store held a record of the request's
\* normalised plate younger than 24 hours.
IdleReq ==
    [pc |-> "idle", kind |-> "-", placa |-> None, chave |-> None,
     leuCache |-> FALSE, leituraFalhou |-> FALSE, tinhaFresco |-> FALSE,
     clientCalls |-> 0, apiCalls |-> 0, placaFormatada |-> None,
     falhaProvedor |-> FALSE, veiculoData |-> None, doc |-> None,
     saveTried |-> 0, saveFalhou |-> FALSE, inseriu |-> FALSE,
     page |-> 0, limit |-> 0, consultas |-> <<>>, vistos |-> 0, contagens |-> <<>>,
     respostas |-> <<>>]

\* What tinhaFresco records: by the data model's key (the uppercase, whitespace-stripped
\* plate), not by the key the handler queries with
RegistroFresco(docs, placa, agora) ==
    \E i \in DOMAIN docs :
        /\ docs[i].placa = formatarPlaca(placa)
        /\ docs[i].dataConsulta > agora - HorasCache

\* res.json(body) / res.status(n).json(body): one more response of the request
responder(rq, resposta) ==
    [rq EXCEPT !.pc = "done", !.respostas = Append(@, resposta)]

\* res.json({success: true, data: veiculoData, ...})
respostaOk(veiculoData) == [status |-> StatusOk, data |-> Some(veiculoData), error |-> ""]

\* Lines 13-18 and 71-75
respostaSemPlaca == [status |-> StatusBadRequest, data |-> None, error |-> "Placa e obrigatoria"]

\* consultaRecente.toObject() with fonte = 'cache'
comFonteCache(registro) ==
    [placa |-> registro.placa, marca |-> registro.marca, valorFipe |-> registro.valorFipe,
     valorFipeScore |-> registro.valorFipeScore, dadosFipe |-> registro.dadosFipe,
     mensagemRetorno |-> registro.mensagemRetorno, dataConsulta |-> registro.dataConsulta,
     fonte |-> "cache"]

\* veiculoData with fonte set
comFonte(registro, fonte) ==
    [placa |-> registro.placa, marca |-> registro.marca, valorFipe |-> registro.valorFipe,
     valorFipeScore |-> registro.valorFipeScore, dadosFipe |-> registro.dadosFipe,
     mensagemRetorno |-> registro.mensagemRetorno, fonte |-> fonte]

\* Lines 40 and 78: the call of apiPlacasService.consultarPlaca, up to its await of
\* axios.get; a plate of invalid format throws, and the handler's catch hands the
\* error to the error middleware
chamarConsultarPlaca(rq) ==
    LET ini == consultarPlacaInicio(rq.placa)
        rq1 == [rq EXCEPT !.clientCalls = @ + 1, !.placaFormatada = ini.placaFormatada]
    IN IF ini.valida
       THEN [rq1 EXCEPT !.pc = "awaitAxios", !.apiCalls = @ + 1]
       ELSE responder(rq1, errorMiddleware(ErroFormato))

\* A new request takes a free slot
SlotLivre(r) == req[r].pc \in {"idle", "done"} /\ pedidos < MaxPedidos

\* GET /api/consulta/:placa, lines 9-23: up to the await of findLatestByPlaca
consultar(r, placa) ==
    /\ SlotLivre(r)
    /\ pedidos' = pedidos + 1
    /\ LET rq == [IdleReq EXCEPT !.kind = "consultar", !.placa = placa]
       IN req' = [req EXCEPT ![r] =
                    IF placa = None THEN responder(rq, respostaSemPlaca)
                    ELSE [rq EXCEPT !.pc = "awaitFind", !.chave = Some(chaveCache(placa))]]
    /\ UNCHANGED <<store, now, foraServidor>>

\* Lines 23-51: findLatestByPlaca answers (with a document, with null, or by throwing,
\* which the handler treats as null), then the freshness test and either the cached
\* answer or the call of the client
findLatestReturn(r) ==
    /\ req[r].pc = "awaitFind"
    /\ \E ok \in BOOLEAN :
       \E consultaRecente \in
             IF ok /\ findLatestByPlaca(store, req[r].placa) # {}
             THEN {Some(store[i]) : i \in findLatestByPlaca(store, req[r].placa)}
             ELSE {None} :
          LET umDiaAtras == now - HorasCache
              rq == [req[r] EXCEPT !.leuCache = TRUE, !.leituraFalhou = ~ok,
                                   !.tinhaFresco = RegistroFresco(store, req[r].placa, now)]
          IN req' = [req EXCEPT ![r] =
                IF consultaRecente # None /\ consultaRecente[1].dataConsulta > umDiaAtras
                THEN responder(rq, respostaOk(comFonteCache(consultaRecente[1])))
                ELSE chamarConsultarPlaca(rq)]
    /\ UNCHANGED <<store, now, pedidos, foraServidor>>

\* forcarConsulta reading the cache first, as consultar does
forcarConsulta_comCache(r, placa) ==
    /\ SlotLivre(r)
    /\ pedidos' = pedidos + 1
    /\ LET rq == [IdleReq EXCEPT !.kind = "forcar", !.placa = placa,
                                 !.tinhaFresco = RegistroFresco(store, placa, now)]
       IN req' = [req EXCEPT ![r] =
                    IF placa = None THEN responder(rq, respostaSemPlaca)
                    ELSE [rq EXCEPT !.pc = "awaitFind", !.chave = Some(chaveCache(placa))]]
    /\ UNCHANGED <<store, now, foraServidor>>

\* GET /api/consulta/:placa/forcar, lines 67-78: up to the await of axios.get
forcarConsulta(r, placa) ==
    /\ SlotLivre(r)
    /\ pedidos' = pedidos + 1
    /\ LET rq == [IdleReq EXCEPT !.kind = "forcar", !.placa = placa,
                                 !.tinhaFresco = RegistroFresco(store, placa, now)]
       IN req' = [req EXCEPT ![r] =
                    IF placa = None THEN responder(rq, respostaSemPlaca)
                    ELSE chamarConsultarPlaca(rq)]
    /\ UNCHANGED <<store, now, foraServidor>>

\* axiosReturn with a failed call made again
axiosReturn_retry(r) ==
    /\ req[r].pc = "awaitAxios"
    /\ \E outcome \in AxiosOutcomes(req[r].placaFormatada) :
          LET fim == consultarPlacaFim(req[r].placaFormatada, outcome)
          IN req' = [req EXCEPT ![r] =
                IF fim.veiculo = NoVeiculo
                THEN [req[r] EXCEPT !.falhaProvedor = TRUE, !.apiCalls = @ + 1]
                ELSE [req[r] EXCEPT !.pc = "awaitSave",
                                    !.veiculoData = Some(comFonte(fim.veiculo[1], "api")),
                                    !.doc = Some(novoVehicle(fim.veiculo[1], now)),
                                    !.saveTried = @ + 1]]
    /\ UNCHANGED <<store, now, pedidos, foraServidor>>

\* Lines 40-46 and 78-84, with apiPlacasService.js lines 38-94: axios.get settles; a
\* failure goes to the error middleware, a record is tagged 'api' and its save starts
axiosReturn(r) ==
    /\ req[r].pc = "awaitAxios"
    /\ \E outcome \in AxiosOutcomes(req[r].placaFormatada) :
          LET fim == consultarPlacaFim(req[r].placaFormatada, outcome)
          IN req' = [req EXCEPT ![r] =
                IF fim.veiculo = NoVeiculo
                THEN responder([req[r] EXCEPT !.falhaProvedor = TRUE], errorMiddleware(fim.erro))
                ELSE [req[r] EXCEPT !.pc = "awaitSave",
                                    !.veiculoData = Some(comFonte(fim.veiculo[1], "api")),
                                    !.doc = Some(novoVehicle(fim.veiculo[1], now)),
                                    !.saveTried = @ + 1]]
    /\ UNCHANGED <<store, now, pedidos, foraServidor>>

\* saveReturn without the try/catch around the save: its error reaches the middleware
saveReturn_propaga(r) ==
    /\ req[r].pc = "awaitSave"
    /\ \E ok \in BOOLEAN :
          /\ store' = IF ok THEN Append(store, req[r].doc[1]) ELSE store
          /\ req' = [req EXCEPT ![r] =
                responder([req[r] EXCEPT !.saveFalhou = ~ok, !.inseriu = ok],
                          IF ok THEN respostaOk(req[r].veiculoData[1])
                          ELSE errorMiddleware("MongoNetworkError: connection timed out"))]
    /\ UNCHANGED <<now, pedidos, foraServidor>>

\* saveReturn as an upsert by plate: the plate's stored record is overwritten
saveReturn_upsert(r) ==
    /\ req[r].pc = "awaitSave"
    /\ \E ok \in BOOLEAN :
          /\ store' =
                IF ~ok THEN store
                ELSE IF \E i \in DOMAIN store : store[i].placa = req[r].doc[1].placa
                THEN [i \in DOMAIN store |->
                        IF store[i].placa = req[r].doc[1].placa THEN req[r].doc[1] ELSE store[i]]
                ELSE Append(store, req[r].doc[1])
          /\ req' = [req EXCEPT ![r] =
                responder([req[r] EXCEPT !.saveFalhou = ~ok, !.inseriu = ok],
                          respostaOk(req[r].veiculoData[1]))]
    /\ UNCHANGED <<now, pedidos, foraServidor>>

\* Lines 46-57 and 84-94: veiculo.save() settles (the document is inserted, or the
\* save throws and the handler logs a warning), then the answer
saveReturn(r) ==
    /\ req[r].pc = "awaitSave"
    /\ \E ok \in BOOLEAN :
          /\ store' = IF ok THEN Append(store, req[r].doc[1]) ELSE store
          /\ req' = [req EXCEPT ![r] =
                responder([req[r] EXCEPT !.saveFalhou = ~ok, !.inseriu = ok],
                          respostaOk(req[r].veiculoData[1]))]
    /\ UNCHANGED <<now, pedidos, foraServidor>>

\* Time passes
Tick ==
    /\ \E t \in Instantes : t > now /\ now' = t
    /\ UNCHANGED <<store, pedidos, req, foraServidor>>

\* The message of an error the store throws
ErroMongo == "MongoNetworkError: connection timed out"

\* The list requests of the server's runs: the plate filter, and page and limit
\* after parseInt
PlacasLista == {ABC1234}
PagesServidor == {1, 2}
LimitsServidor == {1}

\* The filter of a list request: every document (None) or those of one plate
Corresponde(d, filtro) == filtro = None \/ d.placa = filtro[1]

\* find(query).sort({dataConsulta: -1}): the orders the store may answer in (documents
\* of equal dataConsulta in any order), as sequences of positions in the store
RECURSIVE OrdensDe(_, _)
OrdensDe(docs, ids) ==
    IF ids = {} THEN {<<>>}
    ELSE LET novos == {i \in ids : \A j \in ids : docs[i].dataConsulta >= docs[j].dataConsulta}
         IN UNION {{<<i>> \o o : o \in OrdensDe(docs, ids \ {i})} : i \in novos}

OrdenacoesDesc(docs, filtro) ==
    OrdensDe(docs, {i \in DOMAIN docs : Corresponde(docs[i], filtro)})

\* .select('-dadosCompletos -dadosFipe')
semCamposGrandes(d) ==
    [placa |-> d.placa, marca |-> d.marca, valorFipe |-> d.valorFipe,
     valorFipeScore |-> d.valorFipeScore, mensagemRetorno |-> d.mensagemRetorno,
     dataConsulta |-> d.dataConsulta]

\* pagina without the skip: every page is the first one
pagina_semSkip(docs, ordem, skip, limitNum) ==
    [k \in 1..(IF Len(ordem) < limitNum THEN Len(ordem) ELSE limitNum) |->
        semCamposGrandes(docs[ordem[k]])]

\* .limit(limitNum).skip(skip) on an ordered answer
pagina(docs, ordem, skip, limitNum) ==
    [k \in 1..(IF Len(ordem) - skip < 0 THEN 0
               ELSE IF Len(ordem) - skip < limitNum THEN Len(ordem) - skip
               ELSE limitNum) |-> semCamposGrandes(docs[ordem[skip + k]])]

\* countDocuments(query)
countDocuments(docs, filtro) == Cardinality({i \in DOMAIN docs : Corresponde(docs[i], filtro)})

\* Math.ceil(total / limitNum)
totalPages(total, limitNum) == (total + limitNum - 1) \div limitNum

\* GET /api/consulta/:placa/historico, lines 104-118: up to the await of the find
historico(r, placa, page, limit) ==
    /\ SlotLivre(r)
    /\ pedidos' = pedidos + 1
    /\ req' = [req EXCEPT ![r] =
          [IdleReq EXCEPT !.kind = "historico", !.placa = placa, !.pc = "awaitLista",
                          !.chave = Some(toUpperCase(placa)), !.page = page, !.limit = limit]]
    /\ UNCHANGED <<store, now, foraServidor>>

\* GET /api/consultas, lines 141-159: up to the await of the find
listarConsultas(r, placa, page, limit) ==
    /\ SlotLivre(r)
    /\ pedidos' = pedidos + 1
    /\ req' = [req EXCEPT ![r] =
          [IdleReq EXCEPT !.kind = "listar", !.placa = placa, !.pc = "awaitLista",
                          !.chave = IF placa = None THEN None ELSE Some(toUpperCase(placa)),
                          !.page = page, !.limit = limit]]
    /\ UNCHANGED <<store, now, foraServidor>>

\* Lines 113-120 and 154-161: the find settles, then the count starts
listaReturn(r) ==
    /\ req[r].pc = "awaitLista"
    /\ \E ok \in BOOLEAN :
          IF ok
          THEN \E ordem \in OrdenacoesDesc(store, req[r].chave) :
                  req' = [req EXCEPT ![r] =
                     [req[r] EXCEPT !.pc = "awaitCount", !.vistos = Len(ordem),
                         !.consultas = pagina(store, ordem,
                                              (req[r].page - 1) * req[r].limit, req[r].limit)]]
          ELSE req' = [req EXCEPT ![r] = responder(req[r], errorMiddleware(ErroMongo))]
    /\ UNCHANGED <<store, now, pedidos, foraServidor>>

\* Lines 120-131 and 161-172: the count settles, then the answer
countReturn(r) ==
    /\ req[r].pc = "awaitCount"
    /\ \E ok \in BOOLEAN :
          LET total == countDocuments(store, req[r].chave)
          IN req' = [req EXCEPT ![r] =
                IF ok
                THEN responder(req[r],
                        [status |-> StatusOk, error |-> "",
                         data |-> Some([consultas |-> req[r].consultas,
                                        page |-> req[r].page, limit |-> req[r].limit,
                                        total |-> total,
                                        totalPages |-> totalPages(total, req[r].limit)])])
                ELSE responder(req[r], errorMiddleware(ErroMongo))]
    /\ UNCHANGED <<store, now, pedidos, foraServidor>>

\* GET /api/estatisticas, lines 182-184: up to the await of the first count
estatisticas(r) ==
    /\ SlotLivre(r)
    /\ pedidos' = pedidos + 1
    /\ req' = [req EXCEPT ![r] = [IdleReq EXCEPT !.kind = "estatisticas", !.pc = "awaitStats"]]
    /\ UNCHANGED <<store, now, foraServidor>>

\* The four queries of estatisticas, in order: every document, the distinct plates,
\* the documents since midnight, the documents of the last seven days
contagem(docs, k, agora) ==
    IF k = 1 THEN Len(docs)
    ELSE IF k = 2 THEN Cardinality({docs[i].placa : i \in DOMAIN docs})
    ELSE IF k = 3
         THEN Cardinality({i \in DOMAIN docs : docs[i].dataConsulta >= agora - (agora % HorasDia)})
         ELSE Cardinality({i \in DOMAIN docs : docs[i].dataConsulta >= agora - HorasSemana})

\* Lines 184-207: one of the four queries settles; after the fourth, the answer
statsReturn(r) ==
    /\ req[r].pc = "awaitStats"
    /\ \E ok \in BOOLEAN :
          LET k == Len(req[r].contagens) + 1
              rq == [req[r] EXCEPT !.contagens = Append(@, contagem(store, k, now))]
          IN req' = [req EXCEPT ![r] =
                IF ~ok THEN responder(req[r], errorMiddleware(ErroMongo))
                ELSE IF k < 4 THEN rq
                ELSE responder(rq, [status |-> StatusOk, error |-> "",
                                    data |-> Some(rq.contagens)])]
    /\ UNCHANGED <<store, now, pedidos, foraServidor>>

----------------------------------------------------------------------------
(* services/olxService.js: the price extractor *)

IsDigit(c) == c \in Digits
\* the characters /[^\d,.-]/g leaves
IsPrecoChar(c) == c \in Digits \cup {",", ".", "-"}
IsNotPonto(c) == c # "."

DigitValue(c) == CHOOSE n \in 0..9 : <<"0","1","2","3","4","5","6","7","8","9">>[n + 1] = c

\* The value of a string of digits
RECURSIVE DigitsToNat(_)
DigitsToNat(ds) ==
    IF ds = <<>> THEN 0
    ELSE 10 * DigitsToNat(SubSeq(ds, 1, Len(ds) - 1)) + DigitValue(ds[Len(ds)])

\* How many of the characters of s from position i on are digits, up to max
RECURSIVE DigitRun(_, _, _)
DigitRun(s, i, max) ==
    IF max = 0 \/ i > Len(s) \/ ~IsDigit(s[i]) THEN 0 ELSE 1 + DigitRun(s, i + 1, max - 1)

\* (?:\.\d{3})* from position i: the position after the last group
RECURSIVE AfterGroups(_, _)
AfterGroups(s, i) ==
    IF i <= Len(s) /\ s[i] = "." /\ DigitRun(s, i + 1, 3) = 3
    THEN AfterGroups(s, i + 4) ELSE i

\* (?:,\d{2})? from position i: the position after it
AfterDecimals(s, i) ==
    IF i <= Len(s) /\ s[i] = "," /\ DigitRun(s, i + 1, 2) = 2 THEN i + 3 ELSE i

\* limpo.match(/(\d{1,3}(?:\.\d{3})*(?:,\d{2})?)/): the leftmost match, each part as
\* long as it can be; None when limpo has no digit
matchPreco(limpo) ==
    IF \E i \in DOMAIN limpo : IsDigit(limpo[i])
    THEN LET i == CHOOSE k \in DOMAIN limpo :
                     IsDigit(limpo[k]) /\ \A j \in 1..(k - 1) : ~IsDigit(limpo[j])
             fim == AfterDecimals(limpo, AfterGroups(limpo, i + DigitRun(limpo, i, 3)))
         IN Some(SubSeq(limpo, i, fim - 1))
    ELSE None

\* parseFloat of a match with its points removed and its comma made a point: digits,
\* then possibly a point and two digits.  A price is held in centavos (the number
\* times 100), so that 50000.00 is 5000000.
parseFloatCentavos(numero) ==
    IF \E i \in DOMAIN numero : numero[i] = ","
    THEN LET v == CHOOSE i \in DOMAIN numero : numero[i] = ","
         IN 100 * DigitsToNat(SubSeq(numero, 1, v - 1))
            + DigitsToNat(SubSeq(numero, v + 1, Len(numero)))
    ELSE 100 * DigitsToNat(numero)

\* Lines 159-181
extrairPreco(t) ==
    IF t = <<>> THEN None
    ELSE LET limpo == SelectSeq(t, IsPrecoChar)
             match == matchPreco(limpo)
             numeros == SelectSeq(t, IsDigit)
         IN IF match # None
            THEN Some(parseFloatCentavos(SelectSeq(match[1], IsNotPonto)))
            ELSE IF Len(numeros) >= 4 THEN Some(100 * DigitsToNat(numeros))
            ELSE None

----------------------------------------------------------------------------
(* The server: requests arrive and their awaits settle in any order *)

PlacaInit ==
    /\ placaIn = None /\ placaPc = "off" /\ placaFmt = None /\ placaHttp = 0 /\ placaErro = ""
FipeInit == fipeIn = <<>> /\ fipePc = "off" /\ fipeOut = <<>>
PrecoInit == texto = <<>> /\ precoPc = "off" /\ preco = None
UrlInit == urlIn = <<>> /\ urlPc = "off" /\ urlOut = None
OlxInit ==
    /\ olxIn = <<>> /\ olxPc = "off" /\ olxUrl = None /\ olxHtml = <<>>
    /\ precos = <<>> /\ olxOrigem = <<>> /\ olxCorreu = {} /\ olxOut = None

Init ==
    /\ store = <<>>
    /\ now = 0
    /\ pedidos = 0
    /\ req = [r \in Slots |-> IdleReq]
    /\ PlacaInit /\ FipeInit /\ PrecoInit /\ UrlInit /\ OlxInit

Next ==
    \/ \E r \in Slots, placa \in PlacasPedido : consultar(r, placa)
    \/ \E r \in Slots : findLatestReturn(r)
    \/ \E r \in Slots, placa \in PlacasPedido : forcarConsulta(r, placa)
    \/ \E r \in Slots : axiosReturn(r)
    \/ \E r \in Slots : saveReturn(r)
    \/ \E r \in Slots, placa \in PlacasLista, page \in PagesServidor, limit \in LimitsServidor :
          historico(r, placa, page, limit)
    \/ \E r \in Slots, placa \in PlacasLista \cup {None}, page \in PagesServidor,
          limit \in LimitsServidor :
          listarConsultas(r, placa, page, limit)
    \/ \E r \in Slots : listaReturn(r)
    \/ \E r \in Slots : countReturn(r)
    \/ \E r \in Slots : estatisticas(r)
    \/ \E r \in Slots : statsReturn(r)
    \/ Tick

Spec == Init /\ [][Next]_vars

MainIdle ==
    /\ store = <<>> /\ now = 0 /\ pedidos = 0
    /\ req = [r \in Slots |-> IdleReq]

----------------------------------------------------------------------------
(* The plate lookup client alone, over many plates *)

\* How many whitespace characters an input plate holds
MaxEspacos == 1

PlacasBase ==
    {ABC1234, AB1234, <<>>,
     <<"A","B","C","1","D","2","3">>,
     <<"A","B","C","D","1","2","3">>,
     <<"A","B","C","-","1","2","3","4">>,
     <<"A","B","C","1","2","3","4","5">>,
     <<"1","B","C","1","2","3","4">>,
     <<"A","B","C","1","D","D","3">>}

LowerChar(c) ==
    IF \E i \in DOMAIN UpperLetters : UpperLetters[i] = c
    THEN LowerLetters[CHOOSE i \in DOMAIN UpperLetters : UpperLetters[i] = c]
    ELSE c

\* A plate with any of its letters in lower case
Caixas(s) ==
    {[i \in DOMAIN s |-> IF i \in m THEN LowerChar(s[i]) ELSE s[i]] : m \in SUBSET DOMAIN s}

InsertAt(s, k, c) == SubSeq(s, 1, k) \o <<c>> \o SubSeq(s, k + 1, Len(s))

\* A text with up to n whitespace characters put anywhere in it
RECURSIVE ComEspacos(_, _)
ComEspacos(S, n) ==
    IF n = 0 THEN S
    ELSE LET mais == ComEspacos(S, n - 1)
         IN mais \cup UNION {{InsertAt(t, k, w) : k \in 0..Len(t), w \in Whitespace} : t \in mais}

EntradasPlaca == ComEspacos(UNION {Caixas(b) : b \in PlacasBase}, MaxEspacos)

\* Lines 19-26: the plate is formatted and validated
placaValidar ==
    /\ placaPc = "inicio"
    /\ LET ini == consultarPlacaInicio(placaIn)
       IN /\ placaFmt' = Some(ini.placaFormatada)
          /\ placaPc' = IF ini.valida THEN "valida" ELSE "erro"
          /\ placaErro' = IF ini.valida THEN "" ELSE ErroFormato
    /\ UNCHANGED <<placaIn, placaHttp, mainVars, fipeVars, precoVars, urlVars, olxVars>>

\* Lines 28-36: the request to the provider is made
placaAxiosGet ==
    /\ placaPc = "valida"
    /\ placaPc' = "awaitAxios"
    /\ placaHttp' = placaHttp + 1
    /\ UNCHANGED <<placaIn, placaFmt, placaErro, mainVars, fipeVars, precoVars, urlVars, olxVars>>

\* Lines 38-94: the request settles
placaAxiosReturn ==
    /\ placaPc = "awaitAxios"
    /\ \E outcome \in AxiosOutcomes(placaFmt[1]) :
          LET fim == consultarPlacaFim(placaFmt[1], outcome)
          IN /\ placaPc' = IF fim.veiculo = NoVeiculo THEN "erro" ELSE "ok"
             /\ placaErro' = fim.erro
    /\ UNCHANGED <<placaIn, placaFmt, placaHttp, mainVars, fipeVars, precoVars, urlVars, olxVars>>

InitPlaca ==
    /\ MainIdle /\ FipeInit /\ PrecoInit /\ UrlInit /\ OlxInit
    /\ placaIn \in EntradasPlaca
    /\ placaPc = "inicio" /\ placaFmt = None /\ placaHttp = 0 /\ placaErro = ""

NextPlaca == placaValidar \/ placaAxiosGet \/ placaAxiosReturn

SpecPlaca == InitPlaca /\ [][NextPlaca]_vars

----------------------------------------------------------------------------
(* The choice of the valuation alone, over many candidate lists *)

\* How many candidates the provider lists
MaxFipe == 3

TextosFipe == {"R$ 10.000,00", "R$ 20.000,00", "R$ 30.000,00"}
ScoresFipe == {None, Some(0), Some(1), Some(2)}
CandidatosFipe == [texto_valor : {Some(t) : t \in TextosFipe}, score : ScoresFipe]
ListasFipe == UNION {[1..n -> CandidatosFipe] : n \in 0..MaxFipe}

\* Lines 45-60
fipeProcessar ==
    /\ fipePc = "inicio"
    /\ fipeOut' = processarFipe(fipeIn)
    /\ fipePc' = "fim"
    /\ UNCHANGED <<fipeIn, mainVars, placaVars, precoVars, urlVars, olxVars>>

InitFipe ==
    /\ MainIdle /\ PlacaInit /\ PrecoInit /\ UrlInit /\ OlxInit
    /\ fipeIn \in ListasFipe
    /\ fipePc = "inicio"
    /\ fipeOut = <<>>

NextFipe == fipeProcessar

SpecFipe == InitFipe /\ [][NextFipe]_vars

----------------------------------------------------------------------------
(* The price extractor alone, over many texts *)

\* How long a text over PrecoChars is
MaxTexto == 4

PrecoChars == {"R", "5", "0", ".", ","}
TextoR50000 == <<"R","$"," ","5","0",".","0","0","0",",","0","0">>
Texto5000000 == <<"5","0","0","0","0","0","0">>
TextoR123 == <<"R","$"," ","1","2","3">>
TextosExemplo ==
    {TextoR50000, Texto5000000, TextoR123, <<>>,
     <<"R","$"," ","1",".","2","3","4",".","5","6","7">>,
     <<"1","2","3","4">>, <<"t","e","l",":"," ","9","9","-","1","2","3","4">>}
TextosPreco == TextosExemplo \cup UNION {[1..n -> PrecoChars] : n \in 0..MaxTexto}

\* Lines 159-181
precoExtrair ==
    /\ precoPc = "inicio"
    /\ preco' = extrairPreco(texto)
    /\ precoPc' = "fim"
    /\ UNCHANGED <<texto, mainVars, placaVars, fipeVars, urlVars, olxVars>>

InitPreco ==
    /\ MainIdle /\ PlacaInit /\ FipeInit /\ UrlInit /\ OlxInit
    /\ texto \in TextosPreco
    /\ precoPc = "inicio"
    /\ preco = None

NextPreco == precoExtrair

SpecPreco == InitPreco /\ [][NextPreco]_vars

----------------------------------------------------------------------------
(* services/olxService.js: the marketplace URL builder *)

\* A code point outside ASCII is written by its number: the precomposed
\* letters a-tilde, A-tilde, e-acute, c-cedilla and the combining marks they
\* decompose into.
ATil == "U+00E3"
ATilMaiusculo == "U+00C3"
EAgudo == "U+00E9"
CCedilha == "U+00E7"
Til == "U+0303"
Agudo == "U+0301"
Cedilha == "U+0327"

\* The marks in the range U+0300 to U+036F that the letters above decompose into
CombiningMarks == {Til, Agudo, Cedilha}

\* !value of a text that may be absent: null, undefined and '' are falsy
Falsy(v) == v = None \/ v[1] = <<>>

\* String.prototype.toLowerCase
toLowerCase(s) ==
    [i \in DOMAIN s |-> IF s[i] = ATilMaiusculo THEN ATil ELSE LowerChar(s[i])]

\* String.prototype.normalize('NFD'), one code point
Decompor(c) ==
    CASE c = ATil -> <<"a", Til>>
      [] c = ATilMaiusculo -> <<"A", Til>>
      [] c = EAgudo -> <<"e", Agudo>>
      [] c = CCedilha -> <<"c", Cedilha>>
      [] OTHER -> <<c>>

\* String.prototype.normalize('NFD')
RECURSIVE normalizeNFD(_)
normalizeNFD(s) ==
    IF s = <<>> THEN <<>> ELSE Decompor(Head(s)) \o normalizeNFD(Tail(s))

IsNotMark(c) == c \notin CombiningMarks

\* The characters /[^a-z0-9\s-]/ leaves in place
IsSlugChar(c) ==
    \/ \E i \in DOMAIN LowerLetters : LowerLetters[i] = c
    \/ c \in Digits
    \/ c \in Whitespace
    \/ c = "-"

\* .replace(/\s+/g, '-')
RECURSIVE SubstituirEspacos(_)
SubstituirEspacos(s) ==
    IF s = <<>> THEN <<>>
    ELSE IF Head(s) \in Whitespace
         THEN <<"-">> \o SubstituirEspacos(TrimLeft(Tail(s)))
         ELSE <<Head(s)>> \o SubstituirEspacos(Tail(s))

\* The longest run of hyphens at the front of s removed
RECURSIVE SemHifensAFrente(_)
SemHifensAFrente(s) ==
    IF s # <<>> /\ Head(s) = "-" THEN SemHifensAFrente(Tail(s)) ELSE s

\* .replace(/-+/g, '-')
RECURSIVE JuntarHifens(_)
JuntarHifens(s) ==
    IF s = <<>> THEN <<>>
    ELSE IF Head(s) = "-"
         THEN <<"-">> \o JuntarHifens(SemHifensAFrente(Tail(s)))
         ELSE <<Head(s)>> \o JuntarHifens(Tail(s))

\* .replace(/^-|-$/g, ''): one hyphen at the start and one at the end
TirarHifenPontas(s) ==
    LET a == IF s # <<>> /\ Head(s) = "-" THEN Tail(s) ELSE s
    IN IF a # <<>> /\ a[Len(a)] = "-" THEN SubSeq(a, 1, Len(a) - 1) ELSE a

\* normalizarTexto with the period turned into a hyphen instead of dropped
normalizarTexto_pontoHifen(t) ==
    IF Falsy(t) THEN <<>>
    ELSE LET semMarcas == SelectSeq(normalizeNFD(toLowerCase(t[1])), IsNotMark)
             comHifen == [i \in DOMAIN semMarcas |->
                            IF semMarcas[i] = "." THEN "-" ELSE semMarcas[i]]
         IN TirarHifenPontas(JuntarHifens(SubstituirEspacos(
                trim(SelectSeq(comHifen, IsSlugChar)))))

\* normalizarTexto, lines 42-54
normalizarTexto(t) ==
    IF Falsy(t) THEN <<>>
    ELSE LET semMarcas == SelectSeq(normalizeNFD(toLowerCase(t[1])), IsNotMark)
         IN TirarHifenPontas(JuntarHifens(SubstituirEspacos(
                trim(SelectSeq(semMarcas, IsSlugChar)))))

\* split(/[\s-]/)[0]: what comes before the first whitespace or hyphen
RECURSIVE PrimeiroSegmento(_)
PrimeiroSegmento(s) ==
    IF s = <<>> \/ Head(s) \in Whitespace \cup {"-"} THEN <<>>
    ELSE <<Head(s)>> \o PrimeiroSegmento(Tail(s))

\* The fixed part of the URL, kept whole
BaseOlx == "https://www.olx.com.br/autos-e-pecas/carros-vans-e-utilitarios"

\* gerarUrlOlx, lines 13-35
gerarUrlOlx(veiculoData) ==
    IF Falsy(veiculoData.marca) \/ Falsy(veiculoData.modelo)
          \/ Falsy(veiculoData.anoModelo)
    THEN None
    ELSE LET marcaNormalizada == normalizarTexto(veiculoData.marca)
             modeloNormalizado == normalizarTexto(veiculoData.modelo)
             ano == PrimeiroSegmento(trim(veiculoData.anoModelo[1]))
         IN Some(<<BaseOlx, "/">> \o marcaNormalizada \o <<"/">>
                    \o modeloNormalizado \o <<"/">> \o ano)

----------------------------------------------------------------------------
(* The URL builder alone, over many vehicles *)

\* How long a make over UrlChars is
MaxMarca == 3

UrlChars == {"G", "o", " ", "-", ".", "1", ATil}
VolkswagenGol == <<"V","o","l","k","s","w","a","g","e","n"," ","G","o","l">>
Modelo10 == <<"1",".","0">>
Ano2015Flex == <<"2","0","1","5"," ","F","l","e","x">>
VeiculoExemplo ==
    [marca |-> Some(VolkswagenGol), modelo |-> Some(Modelo10),
     anoModelo |-> Some(Ano2015Flex)]
MarcasUrl ==
    {None, Some(VolkswagenGol),
     Some(<<"C","i","t","r","o",EAgudo,"n">>),
     Some(<<" ","-"," ","F","i","a","t"," "," ","-","-"," ","U","n","o","-"," ">>)}
      \cup {Some(t) : t \in UNION {[1..n -> UrlChars] : n \in 0..MaxMarca}}
ModelosUrl ==
    {None, Some(<<>>), Some(Modelo10), Some(<<"G","o","l"," ","G","T","I">>),
     Some(<<"!","!">>)}
AnosUrl ==
    {None, Some(<<>>), Some(Ano2015Flex), Some(<<"2","0","1","5">>),
     Some(<<"2","0","1","5","-","2","0","1","6">>),
     Some(<<" ","2","0","2","0","\t","G","a","s","o","l","i","n","a">>),
     Some(<<" "," ">>)}
VeiculosUrl == [marca : MarcasUrl, modelo : ModelosUrl, anoModelo : AnosUrl]

\* Lines 13-35
urlGerar ==
    /\ urlPc = "inicio"
    /\ urlOut' = gerarUrlOlx(urlIn)
    /\ urlPc' = "fim"
    /\ UNCHANGED <<urlIn, mainVars, placaVars, fipeVars, precoVars, olxVars>>

InitUrl ==
    /\ MainIdle /\ PlacaInit /\ FipeInit /\ PrecoInit /\ OlxInit
    /\ urlIn \in VeiculosUrl
    /\ urlPc = "inicio"
    /\ urlOut = None

NextUrl == urlGerar

SpecUrl == InitUrl /\ [][NextUrl]_vars

----------------------------------------------------------------------------
(* The list endpoints over a store that already holds records, while forced
   lookups of another client add to it *)

\* How many records the store holds when the server starts
MaxRegistros == 25

PagesLista == {1, 2, 3}
LimitsLista == {1, 2, 10}
abc1234 == <<"a","b","c","1","2","3","4">>
ABC1D23 == <<"A","B","C","1","D","2","3">>
PlacasHistorico == {ABC1234, abc1234}

\* A record an earlier lookup of the plate saved, quando hours after the start
RegistroAntigo(placa, quando) ==
    novoVehicle(montarVeiculo([placa |-> placa, marca |-> Some("VW"),
                               mensagemRetorno |-> Some(SemErros),
                               fipeDados |-> FipeExemplo], placa), quando)

\* n records saved before the start, oldest first: of one plate at distinct hours
\* (variante 1), or of two plates in turn with the two newest in the same hour
\* (variante 2)
Historico(n, variante) ==
    [i \in 1..n |->
        RegistroAntigo(IF variante = 2 /\ i % 2 = 0 THEN ABC1D23 ELSE ABC1234,
                       IF variante = 2 /\ i = n THEN 0 - 1 ELSE i - n - 1)]

InitLista ==
    /\ store \in {Historico(n, variante) : n \in 0..MaxRegistros, variante \in {1, 2}}
    /\ now = 0
    /\ pedidos = 0
    /\ req = [r \in Slots |-> IdleReq]
    /\ PlacaInit /\ FipeInit /\ PrecoInit /\ UrlInit /\ OlxInit

\* The list requests come on the first connection, the forced lookups on the second
NextLista ==
    \/ \E placa \in PlacasHistorico, page \in PagesLista, limit \in LimitsLista :
          historico(1, placa, page, limit)
    \/ \E placa \in {None, ABC1234}, page \in PagesLista, limit \in LimitsLista :
          listarConsultas(1, placa, page, limit)
    \/ listaReturn(1)
    \/ countReturn(1)
    \/ forcarConsulta(2, ABC1234)
    \/ axiosReturn(2)
    \/ saveReturn(2)

SpecLista == InitLista /\ [][NextLista]_vars

----------------------------------------------------------------------------
(* services/olxService.js: the marketplace scraper *)

\* A page is what the three selections of the scraper find in it:
\*   cards      the text of the DS-AdCard-Price descendants of each
\*              DS-AdCard-Link element ('' when it has none)
\*   links      for each a[href*="/autos-e-pecas/"] element, the text of its
\*              .olx-text descendants, of its [class*="price"] descendants,
\*              and its own text
\*   elementos  the text of every element, in document order
\* The three are independent here; in a document they overlap, so the pages of
\* a document are among these.

\* A price the code takes as one: a number other than 0
Truthy(p) == p # None /\ p[1] # 0

\* Lines 88-96: the prices of the primary selection
RECURSIVE precosTier1(_)
precosTier1(cards) ==
    IF cards = <<>> THEN <<>>
    ELSE LET precoTexto == trim(Head(cards))
             p == IF precoTexto # <<>> THEN extrairPreco(precoTexto) ELSE None
         IN (IF Truthy(p) THEN <<p[1]>> ELSE <<>>) \o precosTier1(Tail(cards))

\* Lines 100-108: the prices of the secondary selection
RECURSIVE precosTier2(_)
precosTier2(links) ==
    IF links = <<>> THEN <<>>
    ELSE LET a == Head(links)
             precoTexto == IF a.olxText # <<>> THEN a.olxText
                           ELSE IF a.priceText # <<>> THEN a.priceText
                           ELSE a.text
             p == extrairPreco(precoTexto)
         IN (IF Truthy(p) THEN <<p[1]>> ELSE <<>>) \o precosTier2(Tail(links))

\* count++ > 500 ends the scan
LimiteScan == 500
\* texto.length < 100
ComprimentoMaximo == 100
\* preco > 1000 && preco < 10000000, in reais
PrecoMinimo == 1000
PrecoMaximo == 10000000

\* texto.includes('R$')
IncluiCifrao(t) == \E i \in 1..(Len(t) - 1) : t[i] = "R" /\ t[i + 1] = "$"

\* The prices of the elements the scan looks at, each within the range or not
RECURSIVE precosScan(_, _)
precosScan(elementos, comFaixa) ==
    IF elementos = <<>> THEN <<>>
    ELSE LET t == Head(elementos)
             p == IF t # <<>> /\ IncluiCifrao(t) /\ Len(t) < ComprimentoMaximo
                  THEN extrairPreco(t) ELSE None
             aceito == /\ Truthy(p)
                       /\ comFaixa => p[1] > PrecoMinimo * 100 /\ p[1] < PrecoMaximo * 100
         IN (IF aceito THEN <<p[1]>> ELSE <<>>) \o precosScan(Tail(elementos), comFaixa)

\* precosTier3 without the range check
precosTier3_semFaixa(elementos) ==
    precosScan(SubSeq(elementos, 1,
                      IF Len(elementos) < LimiteScan + 1 THEN Len(elementos)
                      ELSE LimiteScan + 1), FALSE)

\* Lines 113-123: the prices of the tertiary scan, over the first 501 elements
precosTier3(elementos) ==
    precosScan(SubSeq(elementos, 1,
                      IF Len(elementos) < LimiteScan + 1 THEN Len(elementos)
                      ELSE LimiteScan + 1), TRUE)

\* [...new Set(precos)]: the first occurrence of each price, in order
RECURSIVE semDuplicatas(_)
semDuplicatas(ps) ==
    IF ps = <<>> THEN <<>>
    ELSE LET antes == semDuplicatas(SubSeq(ps, 1, Len(ps) - 1))
             p == ps[Len(ps)]
         IN IF \E i \in DOMAIN antes : antes[i] = p THEN antes ELSE Append(antes, p)

IsPositivo(p) == p > 0

RECURSIVE Soma(_)
Soma(ps) == IF ps = <<>> THEN 0 ELSE Head(ps) + Soma(Tail(ps))

\* The decimal digits of a natural number
RECURSIVE NatToDigits(_)
NatToDigits(n) ==
    LET d == <<"0","1","2","3","4","5","6","7","8","9">>[(n % 10) + 1]
    IN IF n < 10 THEN <<d>> ELSE Append(NatToDigits(n \div 10), d)

\* A period before every group of three digits counted from the right
RECURSIVE Agrupar(_)
Agrupar(ds) ==
    IF Len(ds) <= 3 THEN ds
    ELSE Agrupar(SubSeq(ds, 1, Len(ds) - 3)) \o <<".">> \o SubSeq(ds, Len(ds) - 2, Len(ds))

\* The no-break space Intl.NumberFormat puts after the currency symbol
NoBreakSpace == "U+00A0"

\* formatarPreco, lines 188-193, of the price num / den centavos: rounded to the
\* centavo, half away from zero
formatarPreco(num, den) ==
    LET c == (2 * num + den) \div (2 * den)
        cs == NatToDigits(c % 100)
    IN <<"R", "$", NoBreakSpace>> \o Agrupar(NatToDigits(c \div 100)) \o <<",">>
          \o (IF Len(cs) = 1 THEN <<"0">> \o cs ELSE cs)

\* Lines 127-144: the statistics of the prices collected, or null when none
estatisticasOlx(ps, url) ==
    LET precosUnicos == SelectSeq(semDuplicatas(ps), IsPositivo)
        valores == {precosUnicos[i] : i \in DOMAIN precosUnicos}
    IN IF precosUnicos = <<>> THEN None
       ELSE Some([menorPreco |-> formatarPreco(CHOOSE v \in valores : \A w \in valores : v <= w, 1),
                  maiorPreco |-> formatarPreco(CHOOSE v \in valores : \A w \in valores : v >= w, 1),
                  mediaPreco |-> formatarPreco(Soma(precosUnicos), Len(precosUnicos)),
                  quantidadeAnuncios |-> Len(precosUnicos),
                  urlOlx |-> url])

\* Lines 61-68: the URL; without one, null and no request
olxGerarUrl ==
    /\ olxPc = "inicio"
    /\ olxUrl' = gerarUrlOlx(olxIn)
    /\ olxPc' = IF olxUrl' = None THEN "fim" ELSE "awaitAxios"
    /\ UNCHANGED <<olxIn, olxHtml, precos, olxOrigem, olxCorreu, olxOut,
                   mainVars, placaVars, fipeVars, precoVars, urlVars>>

\* Lines 70-84 and 145-151: the request settles, with a page or with an error
\* the catch turns into null
olxAxiosReturn(htmls) ==
    /\ olxPc = "awaitAxios"
    /\ \/ olxPc' = "fim" /\ olxHtml' = olxHtml
       \/ olxPc' = "tier1" /\ olxHtml' \in htmls
    /\ UNCHANGED <<olxIn, olxUrl, precos, olxOrigem, olxCorreu, olxOut,
                   mainVars, placaVars, fipeVars, precoVars, urlVars>>

\* What a tier adds to the prices already collected
comTier(k, novos) ==
    /\ precos' = precos \o novos
    /\ olxOrigem' = olxOrigem \o [i \in DOMAIN novos |-> k]
    /\ olxCorreu' = olxCorreu \cup {k}

\* Lines 88-96
olxTier1 ==
    /\ olxPc = "tier1"
    /\ comTier(1, precosTier1(olxHtml.cards))
    /\ olxPc' = "tier2"
    /\ UNCHANGED <<olxIn, olxUrl, olxHtml, olxOut,
                   mainVars, placaVars, fipeVars, precoVars, urlVars>>

\* olxTier2 without the test of line 99
olxTier2_sempre ==
    /\ olxPc = "tier2"
    /\ comTier(2, precosTier2(olxHtml.links))
    /\ olxPc' = "tier3"
    /\ UNCHANGED <<olxIn, olxUrl, olxHtml, olxOut,
                   mainVars, placaVars, fipeVars, precoVars, urlVars>>

\* Lines 99-109
olxTier2 ==
    /\ olxPc = "tier2"
    /\ IF Len(precos) = 0
       THEN comTier(2, precosTier2(olxHtml.links))
       ELSE UNCHANGED <<precos, olxOrigem, olxCorreu>>
    /\ olxPc' = "tier3"
    /\ UNCHANGED <<olxIn, olxUrl, olxHtml, olxOut,
                   mainVars, placaVars, fipeVars, precoVars, urlVars>>

\* Lines 112-124
olxTier3 ==
    /\ olxPc = "tier3"
    /\ IF Len(precos) = 0
       THEN comTier(3, precosTier3(olxHtml.elementos))
       ELSE UNCHANGED <<precos, olxOrigem, olxCorreu>>
    /\ olxPc' = "estatisticas"
    /\ UNCHANGED <<olxIn, olxUrl, olxHtml, olxOut,
                   mainVars, placaVars, fipeVars, precoVars, urlVars>>

\* Lines 127-144
olxEstatisticas ==
    /\ olxPc = "estatisticas"
    /\ olxOut' = estatisticasOlx(precos, olxUrl[1])
    /\ olxPc' = "fim"
    /\ UNCHANGED <<olxIn, olxUrl, olxHtml, precos, olxOrigem, olxCorreu,
                   mainVars, placaVars, fipeVars, precoVars, urlVars>>

----------------------------------------------------------------------------
(* The scraper alone, over many pages *)

\* How many cards, links and elements a page has at most
MaxAnuncios == 2

TextoR500 == <<" ","R","$"," ","5","0","0",",","0","0"," ">>
TextoR1000 == <<"R","$"," ","1",".","0","0","0",",","0","0">>
TextoR10000000 == <<"R","$"," ","1","0",".","0","0","0",".","0","0","0",",","0","0">>
TextoR45000 == <<"R","$"," ","4","5",".","0","0","0">>
TextoGol2015 == <<"G","o","l"," ","2","0","1","5">>
TextoSemCifrao == <<"5","0",".","0","0","0",",","0","0">>
TextoLongo == TextoR50000 \o [i \in 1..90 |-> "x"]

TextosCard == {TextoR50000, TextoR500, <<>>}
LinksPagina ==
    {[olxText |-> TextoR45000, priceText |-> <<>>, text |-> TextoGol2015 \o TextoR45000],
     [olxText |-> <<>>, priceText |-> <<>>, text |-> TextoGol2015],
     [olxText |-> <<>>, priceText |-> <<>>, text |-> <<"V","e","r"," ","m","a","i","s">>]}
TextosElemento == {TextoR50000, TextoR1000, TextoR10000000, TextoSemCifrao}

SeqsAte(S, n) == UNION {[1..k -> S] : k \in 0..n}

Paginas ==
    [cards : SeqsAte(TextosCard, MaxAnuncios),
     links : SeqsAte(LinksPagina, MaxAnuncios),
     elementos : SeqsAte(TextosElemento, MaxAnuncios)
                    \cup {<<TextoLongo>>, <<TextoLongo, TextoR500>>}]

VeiculoSemModelo ==
    [marca |-> Some(VolkswagenGol), modelo |-> None, anoModelo |-> Some(Ano2015Flex)]

InitOlx ==
    /\ MainIdle /\ PlacaInit /\ FipeInit /\ PrecoInit /\ UrlInit
    /\ olxIn \in {VeiculoExemplo, VeiculoSemModelo}
    /\ olxPc = "inicio"
    /\ olxUrl = None /\ olxHtml = <<>>
    /\ precos = <<>> /\ olxOrigem = <<>> /\ olxCorreu = {} /\ olxOut = None

NextOlx ==
    \/ olxGerarUrl
    \/ olxAxiosReturn(Paginas)
    \/ olxTier1
    \/ olxTier2
    \/ olxTier3
    \/ olxEstatisticas

SpecOlx == InitOlx /\ [][NextOlx]_vars

----------------------------------------------------------------------------
(* The claims *)

Lookups == {"consultar", "forcar"}
Terminou(r) == req[r].pc = "done" /\ Len(req[r].respostas) = 1
Resposta(r) == req[r].respostas[1]
AnyLetter == AZ \cup {LowerLetters[i] : i \in DOMAIN LowerLetters}

\* C1: a plain lookup whose cache read worked answers with the stored record tagged
\* source=cache when the store holds a record of the plate younger than 24 hours,
\* and otherwise calls the Plate Lookup Client and tags its result source=api.
C1_CacheOuApi ==
    \A r \in Slots :
        (req[r].kind = "consultar" /\ Terminou(r) /\ req[r].placa # None
         /\ ~req[r].leituraFalhou)
        => IF req[r].tinhaFresco
           THEN /\ Resposta(r).status = StatusOk
                /\ Resposta(r).data[1].fonte = "cache"
                /\ req[r].clientCalls = 0
           ELSE /\ req[r].clientCalls = 1
                /\ Resposta(r).status = StatusOk => Resposta(r).data[1].fonte = "api"

\* C2: a forced lookup always calls the Plate Lookup Client, never reads the cache,
\* tags the fetched record source=api and attempts to persist it, whatever the store holds.
C2_ForcarSempreApi ==
    \A r \in Slots :
        (req[r].kind = "forcar" /\ req[r].placa # None)
        => /\ req[r].clientCalls = 1
           /\ ~req[r].leuCache
           /\ req[r].veiculoData # None
                => req[r].veiculoData[1].fonte = "api" /\ req[r].saveTried = 1
           /\ Terminou(r) /\ Resposta(r).status = StatusOk
                => /\ Resposta(r).data[1].fonte = "api"
                   /\ req[r].saveTried = 1
           /\ Terminou(r) /\ Resposta(r).status # StatusOk
                => req[r].falhaProvedor \/ req[r].apiCalls = 0

C2_Witness ==
    \E r \in Slots :
        /\ req[r].kind = "forcar" /\ Terminou(r) /\ req[r].tinhaFresco
        /\ Resposta(r).status = StatusOk
        /\ Resposta(r).data[1].fonte = "api"
        /\ req[r].inseriu

\* C3: in the plain and forced lookups a store failure never reaches the caller: a
\* failed read of the latest record is a cache miss and the client is called, and
\* whether the insert fails or not the answer is status 200 with the fetched record.
C3_FalhaDoStoreNaoPropaga ==
    \A r \in Slots :
        req[r].kind \in Lookups
        => /\ req[r].leituraFalhou
                => /\ req[r].clientCalls = 1
                   /\ Terminou(r) /\ Resposta(r).status = StatusOk
                        => Resposta(r).data[1].fonte = "api"
           /\ (Terminou(r) /\ req[r].saveTried = 1)
                => /\ Resposta(r).status = StatusOk
                   /\ Resposta(r).data = req[r].veiculoData
                   /\ Resposta(r).error = ""
           /\ \A k \in DOMAIN req[r].respostas : req[r].respostas[k].error # ErroMongo

C3_Witness ==
    \E r \in Slots :
        /\ req[r].kind = "consultar" /\ Terminou(r)
        /\ req[r].leituraFalhou /\ req[r].saveFalhou
        /\ Resposta(r).status = StatusOk

\* C4: a lookup whose plate is missing or malformed is answered with status 400 and
\* a guidance message.
C4_PlacaInvalida400 ==
    \A r \in Slots :
        (req[r].kind \in Lookups /\ Terminou(r)
         /\ (req[r].placa = None \/ ~validarPlaca(formatarPlaca(req[r].placa))))
        => Resposta(r).status = StatusBadRequest /\ Resposta(r).error # ""

\* C5: when the provider call of a lookup fails, the request has made exactly one
\* provider call and ends with exactly one response, of status 500, carrying the
\* provider's or a generic message and no success body; nothing is saved.
C5_FalhaProvedorUmaResposta ==
    \A r \in Slots :
        /\ req[r].apiCalls <= 1
        /\ Len(req[r].respostas) <= 1
        /\ (req[r].kind \in Lookups /\ req[r].falhaProvedor)
             => /\ req[r].apiCalls = 1
                /\ Terminou(r)
                /\ Resposta(r).status = StatusErroInterno
                /\ Resposta(r).data = None
                /\ Resposta(r).error \in {ErroApi, ErroConexao, "Placa nao encontrada"}
                /\ req[r].saveTried = 0

C5_Witness ==
    \E r \in Slots :
        /\ req[r].kind = "consultar" /\ req[r].falhaProvedor /\ Terminou(r)
        /\ Resposta(r).error = ErroConexao

\* C6: the client strips whitespace and uppercases the plate, and unless the result
\* is 3 letters + 4 digits or 3 letters + 1 digit + 1 alphanumeric + 2 digits it fails
\* with the invalid-format error before any provider call: ABC1234 and ABC1D23 in
\* any letter case and with any whitespace are accepted, AB1234, ABCD123 and
\* abc-1234 are rejected.
SemEspacos(p) == SelectSeq(p, IsNotWhitespace)
Aceitavel(p) ==
    LET q == SemEspacos(p)
    IN /\ Len(q) = 7
       /\ \A i \in 1..3 : q[i] \in AnyLetter
       /\ \/ \A i \in 4..7 : q[i] \in Digits
          \/ /\ q[4] \in Digits
             /\ q[5] \in AnyLetter \cup Digits
             /\ q[6] \in Digits /\ q[7] \in Digits

C6_ValidacaoDaPlaca ==
    placaPc # "inicio"
    => /\ Len(placaFmt[1]) = Len(SemEspacos(placaIn))
       /\ \A i \in DOMAIN placaFmt[1] :
             /\ placaFmt[1][i] \notin Whitespace
             /\ placaFmt[1][i] \notin {LowerLetters[k] : k \in DOMAIN LowerLetters}
       /\ Aceitavel(placaIn)
            => /\ placaErro # ErroFormato
               /\ placaHttp = (IF placaPc = "valida" THEN 0 ELSE 1)
       /\ ~Aceitavel(placaIn)
            => placaPc = "erro" /\ placaErro = ErroFormato /\ placaHttp = 0
       /\ SemEspacos(placaIn) \in
             {ABC1234, <<"a","b","c","1","2","3","4">>, <<"A","B","C","1","D","2","3">>, abc1d23}
            => placaErro # ErroFormato
       /\ SemEspacos(placaIn) \in
             {AB1234, <<"A","B","C","D","1","2","3">>, <<"a","b","c","-","1","2","3","4">>}
            => placaPc = "erro" /\ placaErro = ErroFormato /\ placaHttp = 0

C6_Witness ==
    /\ placaIn = <<"a","B","c"," ","1","d","2","3">>
    /\ placaPc = "ok"
    /\ placaFmt = Some(<<"A","B","C","1","D","2","3">>)
    /\ placaHttp = 1

\* C7: the key a request reads the latest record with, the plate of the record it
\* returns and the plate its fetched record is stored under are all the uppercase,
\* whitespace-stripped form of the request's plate.
C7_PlacaNormalizada ==
    \A r \in Slots :
        (req[r].kind \in Lookups /\ req[r].placa # None)
        => /\ req[r].chave # None => req[r].chave = Some(formatarPlaca(req[r].placa))
           /\ req[r].veiculoData # None
                => req[r].veiculoData[1].placa = formatarPlaca(req[r].placa)
           /\ req[r].doc # None
                => /\ req[r].doc[1].placa = formatarPlaca(req[r].placa)
                   /\ req[r].chave # None => req[r].chave = Some(req[r].doc[1].placa)

\* C8: stored records are append-only: a step either leaves the store as it is or
\* is the save of a lookup that fetched a record from the provider, which adds that
\* one record at the end; no step changes or removes a stored record.
C8_AppendOnly ==
    [][\/ store' = store
       \/ \E r \in Slots :
             /\ req[r].pc = "awaitSave"
             /\ req[r].kind \in Lookups
             /\ req[r].veiculoData # None /\ ~req[r].falhaProvedor /\ req[r].apiCalls = 1
             /\ store' = Append(store, req[r].doc[1])
             /\ req'[r].pc = "done"]_vars

C8_Witness ==
    /\ Len(store) = 2
    /\ store[1].placa = store[2].placa
    /\ store[1].dataConsulta < store[2].dataConsulta
    /\ \E r \in Slots : req[r].kind = "forcar" /\ Terminou(r) /\ req[r].inseriu
\* C9: for a non-empty list of valuation candidates, the record's valuation text and
\* score are those of the candidate with the highest score (an absent score counting
\* as 0, the first such candidate in provider order on ties), and the record keeps
\* every candidate of the list.
Pontos(c) == IF c.score = None THEN 0 ELSE c.score[1]
Melhor(dados) ==
    CHOOSE i \in DOMAIN dados :
        /\ \A j \in DOMAIN dados : Pontos(dados[j]) <= Pontos(dados[i])
        /\ \A j \in 1..(i - 1) : Pontos(dados[j]) < Pontos(dados[i])
Vezes(dados, c) == Cardinality({i \in DOMAIN dados : dados[i] = c})

C9_MelhorFipe ==
    (fipePc = "fim" /\ Len(fipeIn) > 0)
    => /\ fipeOut.valorFipe = fipeIn[Melhor(fipeIn)].texto_valor
       /\ fipeOut.valorFipeScore = fipeIn[Melhor(fipeIn)].score
       /\ fipeOut.dadosFipe # None
       /\ \A c \in CandidatosFipe : Vezes(fipeOut.dadosFipe[1], c) = Vezes(fipeIn, c)

\* C10: the price extractor gives a number or no price: "R$ 50.000,00" gives
\* 50000.00, a string of at least 4 digits such as "5000000" gives that integer, a
\* text whose only number is a naked 3-digit one such as "R$ 123" gives no price,
\* and the empty text gives no price.  (Prices are in centavos.)
SoDigitos(t) == \A i \in DOMAIN t : t[i] \in Digits
C10_ExtratorDePreco ==
    precoPc = "fim"
    => /\ texto = TextoR50000 => preco = Some(5000000)
       /\ texto = Texto5000000 => preco = Some(500000000)
       /\ (SoDigitos(texto) /\ Len(texto) >= 4) => preco = Some(100 * DigitsToNat(texto))
       /\ texto = TextoR123 => preco = None
       /\ texto = <<>> => preco = None

\* What the URL builder's claim calls missing: absent or empty
Falta(v) == v = None \/ v = Some(<<>>)

\* Lowercase letters, digits and single inner hyphens only
Slug(t) ==
    /\ \A i \in DOMAIN t :
          t[i] \in {LowerLetters[k] : k \in DOMAIN LowerLetters} \cup Digits \cup {"-"}
    /\ t # <<>> => t[1] # "-" /\ t[Len(t)] # "-"
    /\ \A i \in 1..(Len(t) - 1) : ~(t[i] = "-" /\ t[i + 1] = "-")

TerminaEm(u, fim) ==
    Len(u) >= Len(fim) /\ SubSeq(u, Len(u) - Len(fim) + 1, Len(u)) = fim

\* null when make, model or model-year is missing, otherwise a URL ending in
\* /{normalized-make}/{normalized-model}/{year-token}
UrlConforme ==
    urlPc = "fim" =>
        IF Falta(urlIn.marca) \/ Falta(urlIn.modelo) \/ Falta(urlIn.anoModelo)
        THEN urlOut = None
        ELSE /\ urlOut # None
             /\ LET m == normalizarTexto(urlIn.marca)
                    mo == normalizarTexto(urlIn.modelo)
                    tok == PrimeiroSegmento(trim(urlIn.anoModelo[1]))
                IN /\ TerminaEm(urlOut[1], <<"/">> \o m \o <<"/">> \o mo \o <<"/">> \o tok)
                   /\ Head(urlOut[1]) = BaseOlx
                   /\ Slug(m) /\ Slug(mo)
                   /\ \A i \in DOMAIN tok : tok[i] \notin Whitespace \cup {"-"}
                   /\ LET ano == trim(urlIn.anoModelo[1])
                      IN /\ Len(tok) <= Len(ano)
                         /\ SubSeq(ano, 1, Len(tok)) = tok
                         /\ Len(tok) < Len(ano) => ano[Len(tok) + 1] \in Whitespace \cup {"-"}

Caminho10 ==
    <<"v","o","l","k","s","w","a","g","e","n","-","g","o","l","/","1","0","/","2","0","1","5">>
Caminho1Hifen0 ==
    <<"v","o","l","k","s","w","a","g","e","n","-","g","o","l","/","1","-","0","/","2","0","1","5">>

\* C11, as the code has it: the URL builder returns absent when make, model
\* or model-year is missing, and otherwise a URL ending in
\* /{normalized-make}/{normalized-model}/{year-token}; for make "Volkswagen
\* Gol", model "1.0", year "2015 Flex" the path ends in
\* volkswagen-gol/10/2015, the period of the model being dropped.
C11_UrlOlx ==
    /\ UrlConforme
    /\ urlPc = "fim" /\ urlIn = VeiculoExemplo =>
          urlOut # None /\ TerminaEm(urlOut[1], Caminho10)

C11_Witness ==
    urlPc = "fim" /\ urlIn = VeiculoExemplo /\ urlOut # None

\* C11 as written: the same, with the example's path ending in
\* volkswagen-gol/1-0/2015
C11_Original ==
    /\ UrlConforme
    /\ urlPc = "fim" /\ urlIn = VeiculoExemplo =>
          urlOut # None /\ TerminaEm(urlOut[1], Caminho1Hifen0)

\* The positions of the records a list request is about: those of the plate of
\* a history request, those of the plate filter of a global list request or,
\* without a filter, all
Casam(docs, rq) ==
    {i \in DOMAIN docs :
        \/ rq.kind = "listar" /\ rq.placa = None
        \/ docs[i].placa = toUpperCase(rq.placa)}

Minimo(a, b) == IF a < b THEN a ELSE b
Maximo(a, b) == IF a > b THEN a ELSE b

\* min(l, max(0, n - (p-1)*l))
Esperados(n, p, l) == Minimo(l, Maximo(0, n - (p - 1) * l))

\* ceil(n / l), as the least k with k * l >= n
Teto(n, l) == CHOOSE k \in 0..n : k * l >= n /\ \A j \in 0..n : j * l >= n => k <= j

Ocorrencias(sq, v) == Cardinality({k \in DOMAIN sq : sq[k] = v})

\* consultas is page p of limit l of the matching records of docs, newest first
PaginaCerta(docs, rq, consultas) ==
    LET ids == Casam(docs, rq)
        skip == (rq.page - 1) * rq.limit
        vistas == [i \in DOMAIN docs |-> semCamposGrandes(docs[i])]
    IN /\ Len(consultas) = Esperados(Cardinality(ids), rq.page, rq.limit)
       /\ \A k \in 1..(Len(consultas) - 1) :
             consultas[k].dataConsulta >= consultas[k + 1].dataConsulta
       /\ \A k \in DOMAIN consultas :
             /\ \E i \in ids : consultas[k] = vistas[i]
             /\ Ocorrencias(consultas, consultas[k])
                   <= Cardinality({i \in ids : vistas[i] = consultas[k]})
             /\ Cardinality({i \in ids : docs[i].dataConsulta > consultas[k].dataConsulta})
                   <= skip + k - 1
             /\ Cardinality({i \in ids : docs[i].dataConsulta >= consultas[k].dataConsulta})
                   >= skip + k

\* C12: for the history and global list endpoints with page p >= 1 and limit
\* l >= 1 over n matching records, the find answers with min(l, max(0, n -
\* (p-1)*l)) records, taken newest-first after skipping (p-1)*l, and the
\* response carries them with pagination total = n and totalPages = ceil(n / l),
\* n being the same for both when no matching record is saved between the find
\* and the count; page 2 of limit 10 over 25 records has 10 records and
\* totalPages 3.
C12_Paginacao ==
    [][\A r \in Slots :
          /\ req[r].pc = "awaitLista" /\ req'[r].pc = "awaitCount" =>
                /\ PaginaCerta(store, req[r], req'[r].consultas)
                /\ req'[r].vistos = Cardinality(Casam(store, req[r]))
          /\ (/\ req[r].pc = "awaitCount" /\ req'[r].pc = "done"
              /\ req'[r].respostas[1].status = StatusOk) =>
                LET d == req'[r].respostas[1].data[1]
                    n == Cardinality(Casam(store, req[r]))
                IN /\ Len(req'[r].respostas) = 1
                   /\ d.consultas = req[r].consultas
                   /\ d.page = req[r].page /\ d.limit = req[r].limit
                   /\ d.total = n
                   /\ d.totalPages = Teto(n, d.limit)
                   /\ req[r].vistos = n =>
                         Len(d.consultas) = Esperados(n, d.page, d.limit)
                   /\ req[r].vistos = 25 /\ n = 25 /\ d.page = 2 /\ d.limit = 10 =>
                         Len(d.consultas) = 10 /\ d.totalPages = 3]_vars

C12_Witness ==
    \E r \in Slots :
        /\ req[r].kind \in {"historico", "listar"}
        /\ Terminou(r)
        /\ Resposta(r).status = StatusOk
        /\ req[r].vistos = 25
        /\ Resposta(r).data[1].total = 25
        /\ Resposta(r).data[1].page = 2 /\ Resposta(r).data[1].limit = 10
        /\ Len(Resposta(r).data[1].consultas) = 10
        /\ Resposta(r).data[1].totalPages = 3

\* The tiers whose prices were collected
TiersComPreco == {olxOrigem[i] : i \in DOMAIN olxOrigem}

\* The tiers the extraction has gone past
Passados ==
    IF olxPc = "tier2" THEN {1}
    ELSE IF olxPc = "tier3" THEN {1, 2}
    ELSE IF olxPc \in {"estatisticas", "fim"} /\ olxHtml # <<>> THEN {1, 2, 3}
    ELSE {}

\* C13: the extraction tries its three tiers in order and stops at the first
\* tier that yields at least one price: a later tier runs only if every
\* earlier tier yielded none (and then it does run), so all collected prices
\* come from a single tier, and every price accepted by the tertiary tier is
\* greater than 1,000 and less than 10,000,000.
C13_TiersEmOrdem ==
    /\ Len(olxOrigem) = Len(precos)
    /\ olxCorreu \subseteq Passados
    /\ \A k \in Passados :
          k \in olxCorreu <=> \A j \in 1..(k - 1) : j \in olxCorreu /\ j \notin TiersComPreco
    /\ TiersComPreco \subseteq olxCorreu
    /\ Cardinality(TiersComPreco) <= 1
    /\ \A i \in DOMAIN precos :
          olxOrigem[i] = 3 => precos[i] > 1000 * 100 /\ precos[i] < 10000000 * 100

C13_Witness ==
    /\ olxPc = "fim"
    /\ olxCorreu = {1, 2, 3}
    /\ precos # <<>>
    /\ TiersComPreco = {3}
    /\ Len(olxHtml.elementos) > Len(precos)

====
